---- MODULE Spec2Model ----
(***************************************************************************)
(* Identity and licence managers of usenet-sync-app                        *)
(* (src-tauri/src/identity/mod.rs, src-tauri/src/license/mod.rs) over the  *)
(* OS keyring.  Every keyring call (get_password, set_password,            *)
(* delete_password) may fail; hashes are modelled as injective tuple       *)
(* constructors, freshly generated keypairs as a counter.                  *)
(***************************************************************************)
EXTENDS Integers, Sequences, FiniteSets, TLC

VARIABLES
    store,           \* OS keyring, service "UsenetSync": entry name -> password
    identity_cache,  \* IdentityManager.identity_cache : Option<ImmutableIdentity>
    device,          \* machine attributes read by sysinfo (hostname, MACs, ...)
    now,             \* wall clock (SystemTime::now / Utc::now), in days
    rng,             \* number of keypairs OsRng has produced so far
    ticks,           \* number of clock advances so far
    faults,          \* number of keyring calls that have failed so far
    ret,             \* what the operation of the latest step returned
    id_returned,     \* history: user_ids get_current_identity returned since the last destroy_identity
    trial_granted,   \* history: user_ids for which activate_trial has returned Ok
    prior_trial,     \* history: user_ids destroyed by destroy_identity after a trial was granted to them
    init_partial,    \* history: the last initialize_identity stored the private key and failed on the record
    arg,             \* history: the licence key string the latest call was given (None: no argument)
    mgr,             \* two LicenseManager instances over the same keyring, each in the middle of a call
    networks,        \* the order in which sys.networks() iterates over the machine's interfaces
    logs,            \* SystemState.logs : Vec<LogEntry>
    log_file,        \* the lines of /var/log/usenet-sync.log
    bandwidth_limits,\* SystemState.bandwidth_limits : BandwidthLimits
    MOCK_STATE       \* the stub TurboActivate's MockLicenseState

vars == <<store, identity_cache, device, now, rng, ticks, faults, ret,
          id_returned, trial_granted, prior_trial, init_partial, arg, mgr, networks,
          logs, log_file, bandwidth_limits, MOCK_STATE>>

(* The state of the desktop commands, which the identity and licence managers
   do not touch *)
desktop == <<logs, log_file, bandwidth_limits, MOCK_STATE>>

(* The state of the identity and licence managers, which the desktop commands
   do not touch *)
managers == <<store, identity_cache, device, rng, ticks, faults, id_returned,
              trial_granted, prior_trial, init_partial, mgr, networks>>

----------------------------------------------------------------------------
(* BandwidthLimits and the MockLicenseState MOCK_STATE starts with *)
BandwidthLimits(upload_kbps, download_kbps, enabled) ==
    [upload_kbps |-> upload_kbps, download_kbps |-> download_kbps, enabled |-> enabled]

MockLicenseState ==
    [is_activated |-> FALSE, is_genuine |-> TRUE, trial_days |-> 30, product_key |-> <<>>]

----------------------------------------------------------------------------
(* Bounds of the model *)
MaxKeys == 2        \* keypairs generated in one behaviour
MaxDevices == 2     \* attribute sets the machine has in one behaviour
MaxTicks == 1       \* clock advances in one behaviour
MaxFaults == 1      \* keyring calls failing in one behaviour
MaxLogs == 2        \* entries add_log keeps in memory (scaled down from the program's 10000)
MaxAddLogs == 4     \* add_log calls in one behaviour
DayLen == 2         \* clock readings told apart within one day

(* Program constants *)
TRIAL_DAYS == 30
IDENTITY_VERSION == 1
MIN_KEY_LEN == 32

ClockSteps == {TRIAL_DAYS, TRIAL_DAYS + 1}
NearExpirySteps == {TRIAL_DAYS - 1, TRIAL_DAYS, TRIAL_DAYS + 1}

----------------------------------------------------------------------------
(* Option<T> *)
None == <<>>
Some(x) == <<x>>

(* Keyring entry names *)
IDENTITY == <<"Identity">>
PrivateEntry(user_id) == <<"private", user_id>>
LicenseEntry(user_id) == <<"license", user_id>>
TrialEntry(user_id) == <<"trial_used", user_id>>
ActivationsEntry(key) == <<"activations", key>>
ActivationEntry(key, n) == <<"activation", <<key, n>>>>

(* Keyring contents after set_password / delete_password *)
Put(st, k, v) == [x \in DOMAIN st \cup {k} |-> IF x = k THEN v ELSE st[x]]
Del(st, k) == [x \in DOMAIN st \ {k} |-> st[x]]
EmptyStore == [x \in {} |-> None]

(* The keyring calls one operation makes, by name; a fault set f names the
   calls that fail in one invocation. *)
FaultSets(points) == {f \in SUBSET points : faults + Cardinality(f) <= MaxFaults}

IdentityPoints == {"id_get", "priv_set", "id_set"}

(* Results *)
Ok(v) == [ok |-> TRUE, err |-> "", val |-> v]
Err(e) == [ok |-> FALSE, err |-> e, val |-> None]
Returned(op, r) == [op |-> op, ok |-> r.ok, err |-> r.err, val |-> r.val]
NoCall == [op |-> "none", ok |-> TRUE, err |-> "", val |-> None]

----------------------------------------------------------------------------
(* identity/mod.rs *)

(* The machine's network interfaces, and the orders in which the map behind
   sys.networks() can hand them to the loop that hashes them *)
Interfaces == {"eth0", "lo"}
NetworkOrders ==
    {o \in [1..Cardinality(Interfaces) -> Interfaces] : \A i, j \in DOMAIN o : o[i] = o[j] => i = j}

(* generate_device_fingerprint on a machine with attributes d (CPU, memory,
   hostname, interfaces and their MAC addresses, OS, kernel): the interfaces
   are hashed in the order of iteration *)
generate_device_fingerprint(d) == <<"sha3", d, networks>>

derive_user_id(public_key, fingerprint) == <<"USN", public_key, fingerprint>>

(* A verify_device that accepts every machine *)
verify_device_skipped(identity, d) == TRUE

verify_device(identity, d) ==
    generate_device_fingerprint(d) = identity.device_fingerprint

(* initialize_identity: result, keyring and cache after the call.  OsRng gives
   a keypair no earlier call has seen: the rng-th one.  gen tells that the
   keypair reached the keyring; one dropped before that is seen by nobody and
   is not counted. *)
initialize_identity(st, cache, f) ==
    IF IDENTITY \in DOMAIN st /\ "id_get" \notin f
    THEN [res |-> Ok(<<st[IDENTITY], FALSE>>), store |-> st,
          cache |-> Some(st[IDENTITY]), gen |-> FALSE, partial |-> FALSE]
    ELSE LET public_key == rng + 1
             fingerprint == generate_device_fingerprint(device)
             user_id == derive_user_id(public_key, fingerprint)
             identity == [user_id |-> user_id,
                          public_key |-> public_key,
                          created_at |-> now,
                          device_fingerprint |-> fingerprint,
                          version |-> IDENTITY_VERSION]
             st1 == Put(st, PrivateEntry(user_id), <<"secret", public_key>>)
             st2 == Put(st1, IDENTITY, identity)
         IN  IF "priv_set" \in f
             THEN [res |-> Err("keyring"), store |-> st, cache |-> cache,
                   gen |-> FALSE, partial |-> FALSE]
             ELSE IF "id_set" \in f
             THEN [res |-> Err("keyring"), store |-> st1, cache |-> cache,
                   gen |-> TRUE, partial |-> TRUE]
             ELSE [res |-> Ok(<<identity, TRUE>>), store |-> st2,
                   cache |-> Some(identity), gen |-> TRUE, partial |-> FALSE]

get_current_identity(st, cache, f) ==
    IF cache # None
    THEN [res |-> Ok(cache[1]), store |-> st, cache |-> cache,
          gen |-> FALSE, partial |-> init_partial]
    ELSE LET r == initialize_identity(st, cache, f)
         IN  [res |-> IF r.res.ok THEN Ok(r.res.val[1]) ELSE r.res,
              store |-> r.store, cache |-> r.cache, gen |-> r.gen,
              partial |-> r.partial]

(* A destroy_identity that erases the identity's licence as well *)
destroy_identity_erasing(st, cache, f) ==
    IF cache # None
    THEN [res |-> Ok(None),
          store |-> Del(Del(Del(st, PrivateEntry(cache[1].user_id)), IDENTITY),
                        LicenseEntry(cache[1].user_id)),
          cache |-> None]
    ELSE [res |-> Ok(None), store |-> st, cache |-> cache]

(* destroy_identity: delete errors are discarded (let _ =) *)
destroy_identity(st, cache, f) ==
    IF cache # None
    THEN LET st1 == IF "priv_del" \in f THEN st
                    ELSE Del(st, PrivateEntry(cache[1].user_id))
             st2 == IF "id_del" \in f THEN st1 ELSE Del(st1, IDENTITY)
         IN  [res |-> Ok(None), store |-> st2, cache |-> None]
    ELSE [res |-> Ok(None), store |-> st, cache |-> cache]

(* Ed25519 values.  Keypairs are numbered from 1; the secret key of public
   key k is <<"secret", k>>; 0 stands for bytes PublicKey::from_bytes rejects.
   A signature is named by what made it and by the form of the bytes handed to
   Signature::from_bytes: as signed, with one bit flipped, with one of the
   three highest bits of the last byte flipped (s is below 2^253, so these are
   0 in every signature made), or cut short. *)
MALFORMED_KEY == 0
PublicKey_from_bytes(public_key) ==
    IF public_key = MALFORMED_KEY THEN Err("public key") ELSE Ok(public_key)

Signature_from_bytes(signature) ==
    IF signature.form \in {"short", "high_bit"} THEN Err("signature") ELSE Ok(signature)

KEY_NOT_FOUND == "NoEntry"

(* A sign_data that derives the secret from the identity instead of reading
   the keyring *)
sign_data_keyless(st, identity, data) ==
    Ok([secret |-> <<"secret", identity.public_key>>, public |-> identity.public_key,
        data |-> data, form |-> "intact"])

sign_data(st, identity, data) ==
    IF PrivateEntry(identity.user_id) \notin DOMAIN st THEN Err(KEY_NOT_FOUND)
    ELSE IF ~PublicKey_from_bytes(identity.public_key).ok
    THEN PublicKey_from_bytes(identity.public_key)
    ELSE Ok([secret |-> st[PrivateEntry(identity.user_id)],
             public |-> identity.public_key,
             data |-> data, form |-> "intact"])

(* public_key.verify(data, &signature): is the signature, bit for bit, the one
   the secret key of public_key makes for data *)
ed25519_verify(public_key, data, signature) ==
    /\ signature.form = "intact"
    /\ signature.secret = <<"secret", public_key>>
    /\ signature.public = public_key
    /\ signature.data = data

verify_signature(identity, data, signature) ==
    IF ~PublicKey_from_bytes(identity.public_key).ok
    THEN PublicKey_from_bytes(identity.public_key)
    ELSE IF ~Signature_from_bytes(signature).ok
    THEN Err("signature")
    ELSE Ok(<<ed25519_verify(identity.public_key, data, signature)>>)

create_identity_proof(st, identity, nonce) ==
    LET timestamp == now
        proof_data == <<identity.user_id, timestamp, nonce>>
        signature == sign_data(st, identity, proof_data)
    IN  IF ~signature.ok THEN signature
        ELSE Ok([user_id |-> identity.user_id, timestamp |-> timestamp,
                 nonce |-> nonce, signature |-> signature.val])

(* An export that adds the private key *)
export_public_identity_leaking(identity) ==
    <<"base64", <<"json", [user_id |-> identity.user_id,
                           public_key |-> <<"hex", identity.public_key>>,
                           created_at |-> identity.created_at,
                           version |-> identity.version,
                           private_key |-> <<"secret", identity.public_key>>]>>>>

export_public_identity(identity) ==
    <<"base64", <<"json", [user_id |-> identity.user_id,
                           public_key |-> <<"hex", identity.public_key>>,
                           created_at |-> identity.created_at,
                           version |-> identity.version]>>>>

----------------------------------------------------------------------------
(* license/mod.rs *)

(* A trial feature set with the storage limit of the personal one *)
LicenseFeatures_trial_generous ==
    [max_storage_gb |-> Some(1000), max_folders |-> Some(100), max_files |-> Some(1000),
     max_connections |-> 2, parallel_uploads |-> 1, parallel_downloads |-> 2,
     encryption_enabled |-> TRUE, private_shares |-> FALSE, password_shares |-> FALSE,
     auto_resume |-> FALSE, scheduled_sync |-> FALSE, api_access |-> FALSE,
     priority_support |-> FALSE]

LicenseFeatures_trial ==
    [max_storage_gb |-> Some(10), max_folders |-> Some(100), max_files |-> Some(1000),
     max_connections |-> 2, parallel_uploads |-> 1, parallel_downloads |-> 2,
     encryption_enabled |-> TRUE, private_shares |-> FALSE, password_shares |-> FALSE,
     auto_resume |-> FALSE, scheduled_sync |-> FALSE, api_access |-> FALSE,
     priority_support |-> FALSE]

LicenseFeatures_personal ==
    [max_storage_gb |-> Some(1000), max_folders |-> Some(10000), max_files |-> Some(100000),
     max_connections |-> 10, parallel_uploads |-> 4, parallel_downloads |-> 8,
     encryption_enabled |-> TRUE, private_shares |-> TRUE, password_shares |-> TRUE,
     auto_resume |-> TRUE, scheduled_sync |-> TRUE, api_access |-> FALSE,
     priority_support |-> FALSE]

LicenseFeatures_professional ==
    [max_storage_gb |-> Some(10000), max_folders |-> None, max_files |-> None,
     max_connections |-> 30, parallel_uploads |-> 10, parallel_downloads |-> 20,
     encryption_enabled |-> TRUE, private_shares |-> TRUE, password_shares |-> TRUE,
     auto_resume |-> TRUE, scheduled_sync |-> TRUE, api_access |-> TRUE,
     priority_support |-> TRUE]

LicenseFeatures_enterprise ==
    [max_storage_gb |-> None, max_folders |-> None, max_files |-> None,
     max_connections |-> 60, parallel_uploads |-> 20, parallel_downloads |-> 40,
     encryption_enabled |-> TRUE, private_shares |-> TRUE, password_shares |-> TRUE,
     auto_resume |-> TRUE, scheduled_sync |-> TRUE, api_access |-> TRUE,
     priority_support |-> TRUE]

LicenseFeatures_lifetime == LicenseFeatures_enterprise

(* The licence key strings a caller passes to activate_paid_license:
   BASE64(JSON(LicenseKey)), or text that does not decode. *)
LicenseKeyInputs ==
    { [decodes |-> TRUE,
       payload |-> [key |-> "K1", key_len |-> 64, license_type |-> "Personal",
                    duration_days |-> Some(365), max_activations |-> 1,
                    features |-> LicenseFeatures_personal]],
      [decodes |-> FALSE, payload |-> None] }

(* More key strings: JSON may carry fields LicenseKey does not have (price);
   anyone can encode a key, so type and features need not agree. *)
PaidKeyInputs ==
    LicenseKeyInputs \cup
    { [decodes |-> TRUE,
       payload |-> [key |-> "K2", key_len |-> 64, license_type |-> "Personal",
                    duration_days |-> Some(365), max_activations |-> 1,
                    features |-> LicenseFeatures_personal, price |-> 1999]],
      [decodes |-> TRUE,
       payload |-> [key |-> "K3", key_len |-> 64, license_type |-> "Personal",
                    duration_days |-> None, max_activations |-> 2,
                    features |-> LicenseFeatures_enterprise, price |-> 2999]],
      [decodes |-> TRUE,
       payload |-> [key |-> "K4", key_len |-> 16, license_type |-> "Lifetime",
                    duration_days |-> None, max_activations |-> 1,
                    features |-> LicenseFeatures_lifetime, price |-> 2999]] }

(* generate_license_key: the feature set of a licence type *)
features_of(license_type) ==
    CASE license_type = "Trial" -> LicenseFeatures_trial
      [] license_type = "Personal" -> LicenseFeatures_personal
      [] license_type = "Professional" -> LicenseFeatures_professional
      [] license_type = "Enterprise" -> LicenseFeatures_enterprise
      [] license_type = "Lifetime" -> LicenseFeatures_lifetime

generate_license_id(user_id, license_type, t) == <<"LIC", user_id, license_type, t>>

sign_license(license_id, user_id) ==
    <<"sha3", license_id, user_id, "UsenetSync-License-v1">>

(* A verify_license_signature that accepts every signature *)
verify_license_signature_skipped(license) == TRUE

verify_license_signature(license) ==
    license.signature = sign_license(license.license_id, license.user_id)

(* A decode_license_key that takes a key without duration for an annual one *)
decode_license_key_annual(input) ==
    IF ~input.decodes THEN Err("decode")
    ELSE IF input.payload.key_len < MIN_KEY_LEN THEN Err("Invalid license key format")
    ELSE Ok([key |-> input.payload.key,
             license_type |-> input.payload.license_type,
             duration_days |-> IF input.payload.duration_days = None THEN Some(365)
                               ELSE input.payload.duration_days,
             max_activations |-> input.payload.max_activations,
             features |-> input.payload.features])

decode_license_key(input) ==
    IF ~input.decodes THEN Err("decode")
    ELSE IF input.payload.key_len < MIN_KEY_LEN THEN Err("Invalid license key format")
    ELSE Ok([key |-> input.payload.key,
             license_type |-> input.payload.license_type,
             duration_days |-> input.payload.duration_days,
             max_activations |-> input.payload.max_activations,
             features |-> input.payload.features])

(* The licence entries of keyring st *)
LicenseEntries(st) == {k \in DOMAIN st : k[1] = "license"}

(* get_activation_count: a failed read counts as 0 *)
get_activation_count(st, key, failed) ==
    IF ~failed /\ ActivationsEntry(key) \in DOMAIN st
    THEN st[ActivationsEntry(key)] ELSE 0

(* has_used_trial: a failed read counts as "not used" *)
has_used_trial(st, user_id, failed) ==
    ~failed /\ TrialEntry(user_id) \in DOMAIN st

TrialPoints == IdentityPoints \cup {"trial_get", "lic_set", "trial_set"}
PaidPoints == IdentityPoints \cup {"act_get", "lic_set", "act_get2", "act_set", "actuser_set"}
ValidatePoints == IdentityPoints \cup {"lic_get"}
DeactivatePoints == IdentityPoints \cup {"lic_get", "lic_set"}

(* Every licence operation starts with get_current_identity()?; Out keeps
   what that call did to the keyring, the cache and the RNG. *)
Out(i, res, st) ==
    [res |-> res, store |-> st, cache |-> i.cache, gen |-> i.gen, partial |-> i.partial]

activate_trial(st, cache, f) ==
    LET i == get_current_identity(st, cache, f) IN
    IF ~i.res.ok THEN i
    ELSE
    LET identity == i.res.val
        license_id == generate_license_id(identity.user_id, "Trial", now)
        license == [license_id |-> license_id,
                    user_id |-> identity.user_id,
                    license_type |-> "Trial",
                    activated_at |-> now,
                    expires_at |-> Some(now + TRIAL_DAYS),
                    device_fingerprint |-> identity.device_fingerprint,
                    features |-> LicenseFeatures_trial,
                    signature |-> sign_license(license_id, identity.user_id),
                    is_active |-> TRUE,
                    activation_count |-> 1,
                    max_activations |-> 1]
        st1 == Put(i.store, LicenseEntry(license.user_id), license)
        st2 == Put(st1, TrialEntry(identity.user_id), "true")
    IN  IF has_used_trial(i.store, identity.user_id, "trial_get" \in f)
        THEN Out(i, Err("Trial already used for this identity"), i.store)
        ELSE IF ~verify_device(identity, device)
        THEN Out(i, Err("Device verification failed"), i.store)
        ELSE IF "lic_set" \in f THEN Out(i, Err("keyring"), i.store)
        ELSE IF "trial_set" \in f THEN Out(i, Err("keyring"), st1)
        ELSE Out(i, Ok(license), st2)

activate_paid_license(st, cache, input, f) ==
    LET i == get_current_identity(st, cache, f) IN
    IF ~i.res.ok THEN i
    ELSE
    LET identity == i.res.val
        d == decode_license_key(input)
    IN  IF ~d.ok THEN Out(i, d, i.store)
        ELSE IF ~verify_device(identity, device)
        THEN Out(i, Err("Device verification failed"), i.store)
        ELSE
        LET decoded == d.val
            activation_count == get_activation_count(i.store, decoded.key, "act_get" \in f)
            license_id == generate_license_id(identity.user_id, decoded.license_type, now)
            license == [license_id |-> license_id,
                        user_id |-> identity.user_id,
                        license_type |-> decoded.license_type,
                        activated_at |-> now,
                        expires_at |-> IF decoded.duration_days = None THEN None
                                       ELSE Some(now + decoded.duration_days[1]),
                        device_fingerprint |-> identity.device_fingerprint,
                        features |-> decoded.features,
                        signature |-> sign_license(license_id, identity.user_id),
                        is_active |-> TRUE,
                        activation_count |-> activation_count + 1,
                        max_activations |-> decoded.max_activations]
            st1 == Put(i.store, LicenseEntry(license.user_id), license)
            \* record_activation
            count == get_activation_count(st1, decoded.key, "act_get2" \in f)
            st2 == Put(st1, ActivationsEntry(decoded.key), count + 1)
            st3 == Put(st2, ActivationEntry(decoded.key, count + 1), identity.user_id)
        IN  IF activation_count >= decoded.max_activations
            THEN Out(i, Err("License activation limit reached"), i.store)
            ELSE IF "lic_set" \in f THEN Out(i, Err("keyring"), i.store)
            ELSE IF "act_set" \in f THEN Out(i, Err("keyring"), st1)
            ELSE IF "actuser_set" \in f THEN Out(i, Err("keyring"), st2)
            ELSE Out(i, Ok(license), st3)

(* A validate_current_license without the expiry check *)
validate_current_license_unexpiring(st, cache, f) ==
    LET i == get_current_identity(st, cache, f) IN
    IF ~i.res.ok THEN i
    ELSE
    LET identity == i.res.val
        license == i.store[LicenseEntry(identity.user_id)]
    IN  IF "lic_get" \in f \/ LicenseEntry(identity.user_id) \notin DOMAIN i.store
        THEN Out(i, Ok(<<FALSE, None>>), i.store)
        ELSE IF license.user_id # identity.user_id
        THEN Out(i, Ok(<<FALSE, None>>), i.store)
        ELSE IF license.device_fingerprint # identity.device_fingerprint
        THEN Out(i, Ok(<<FALSE, None>>), i.store)
        ELSE IF ~verify_license_signature(license)
        THEN Out(i, Ok(<<FALSE, None>>), i.store)
        ELSE IF ~license.is_active
        THEN Out(i, Ok(<<FALSE, None>>), i.store)
        ELSE Out(i, Ok(<<TRUE, Some(license)>>), i.store)

validate_current_license(st, cache, f) ==
    LET i == get_current_identity(st, cache, f) IN
    IF ~i.res.ok THEN i
    ELSE
    LET identity == i.res.val
        license == i.store[LicenseEntry(identity.user_id)]
    IN  IF "lic_get" \in f \/ LicenseEntry(identity.user_id) \notin DOMAIN i.store
        THEN Out(i, Ok(<<FALSE, None>>), i.store)
        ELSE IF license.user_id # identity.user_id
        THEN Out(i, Ok(<<FALSE, None>>), i.store)
        ELSE IF license.device_fingerprint # identity.device_fingerprint
        THEN Out(i, Ok(<<FALSE, None>>), i.store)
        ELSE IF license.expires_at # None /\ now > license.expires_at[1]
        THEN Out(i, Ok(<<FALSE, None>>), i.store)
        ELSE IF ~verify_license_signature(license)
        THEN Out(i, Ok(<<FALSE, None>>), i.store)
        ELSE IF ~license.is_active
        THEN Out(i, Ok(<<FALSE, None>>), i.store)
        ELSE Out(i, Ok(<<TRUE, Some(license)>>), i.store)

(* Duration::num_days of a duration given in clock readings (DayLen to the
   day), rounding down *)
num_days_floor(duration) == duration \div DayLen

(* Duration::num_days: whole days, the fraction dropped *)
num_days(duration) ==
    IF duration >= 0 THEN duration \div DayLen ELSE -((-duration) \div DayLen)

(* get_remaining_days when Utc::now() reads t, in clock readings; expires_at
   is in days *)
get_remaining_days(license, t) ==
    IF license.expires_at = None THEN None
    ELSE Some(num_days(license.expires_at[1] * DayLen - t))

deactivate_license(st, cache, f) ==
    LET i == get_current_identity(st, cache, f) IN
    IF ~i.res.ok THEN i
    ELSE
    LET identity == i.res.val
        stored == i.store[LicenseEntry(identity.user_id)]
        license == [stored EXCEPT !.is_active = FALSE]
    IN  IF "lic_get" \in f \/ LicenseEntry(identity.user_id) \notin DOMAIN i.store
        THEN Out(i, Err("keyring"), i.store)
        ELSE IF "lic_set" \in f THEN Out(i, Err("keyring"), i.store)
        ELSE Out(i, Ok(None), Put(i.store, LicenseEntry(license.user_id), license))

----------------------------------------------------------------------------
(* The LicenseManager instances of the concurrent specification; outside it
   none of them is in a call. *)
Managers == {1, 2}
Idle == [p \in Managers |-> [pc |-> "idle", op |-> "none", cache |-> None,
                              license |-> None, count |-> 0, res |-> NoCall,
                              base |-> EmptyStore]]

Init ==
    /\ store = EmptyStore
    /\ identity_cache = None
    /\ device = 1
    /\ now = 0
    /\ rng = 0
    /\ ticks = 0
    /\ faults = 0
    /\ ret = NoCall
    /\ id_returned = {}
    /\ trial_granted = {}
    /\ prior_trial = {}
    /\ init_partial = FALSE
    /\ arg = None
    /\ mgr = Idle
    /\ networks = <<"eth0", "lo">>
    /\ logs = <<>>
    /\ log_file = <<>>
    /\ bandwidth_limits = BandwidthLimits(0, 0, FALSE)
    /\ MOCK_STATE = MockLicenseState

InitializeIdentity ==
    \E f \in FaultSets(IdentityPoints) :
        LET r == initialize_identity(store, identity_cache, f)
        IN  /\ f # {} => r # initialize_identity(store, identity_cache, {})
            /\ faults' = faults + Cardinality(f)
            /\ r.gen => rng < MaxKeys
            /\ store' = r.store
            /\ identity_cache' = r.cache
            /\ rng' = IF r.gen THEN rng + 1 ELSE rng
            /\ ret' = Returned("initialize_identity", r.res)
            /\ init_partial' = r.partial
            /\ arg' = None
            /\ UNCHANGED <<device, now, ticks, id_returned, trial_granted, prior_trial, mgr, networks, desktop>>

GetCurrentIdentity ==
    \E f \in FaultSets(IdentityPoints) :
        LET r == get_current_identity(store, identity_cache, f)
        IN  /\ f # {} => r # get_current_identity(store, identity_cache, {})
            /\ faults' = faults + Cardinality(f)
            /\ r.gen => rng < MaxKeys
            /\ store' = r.store
            /\ identity_cache' = r.cache
            /\ rng' = IF r.gen THEN rng + 1 ELSE rng
            /\ ret' = Returned("get_current_identity", r.res)
            /\ init_partial' = r.partial
            /\ id_returned' = IF r.res.ok THEN id_returned \cup {r.res.val.user_id}
                              ELSE id_returned
            /\ arg' = None
            /\ UNCHANGED <<device, now, ticks, trial_granted, prior_trial, mgr, networks, desktop>>

DestroyIdentity ==
    \E f \in FaultSets({"priv_del", "id_del"}) :
        LET r == destroy_identity(store, identity_cache, f)
            u == identity_cache[1].user_id
        IN  /\ f # {} => r # destroy_identity(store, identity_cache, {})
            /\ faults' = faults + Cardinality(f)
            /\ store' = r.store
            /\ identity_cache' = r.cache
            /\ ret' = Returned("destroy_identity", r.res)
            /\ id_returned' = {}
            /\ prior_trial' =
                 IF /\ identity_cache # None
                    /\ IDENTITY \notin DOMAIN r.store
                    /\ u \in trial_granted
                 THEN prior_trial \cup {u} ELSE prior_trial
            /\ arg' = None
            /\ UNCHANGED <<device, now, rng, ticks, trial_granted, init_partial, mgr, networks, desktop>>

(* What every licence operation does to the managers' state *)
Effects(op, r, f, r0) ==
    /\ faults' = faults + Cardinality(f)
    /\ f # {} => r # r0
    /\ r.gen => rng < MaxKeys
    /\ store' = r.store
    /\ identity_cache' = r.cache
    /\ rng' = IF r.gen THEN rng + 1 ELSE rng
    /\ ret' = Returned(op, r.res)
    /\ init_partial' = r.partial
    /\ UNCHANGED <<device, now, ticks, id_returned, prior_trial, mgr, networks, desktop>>

ActivateTrial ==
    \E f \in FaultSets(TrialPoints) :
        LET r == activate_trial(store, identity_cache, f)
        IN  /\ Effects("activate_trial", r, f, activate_trial(store, identity_cache, {}))
            /\ trial_granted' = IF r.res.ok THEN trial_granted \cup {r.res.val.user_id}
                                ELSE trial_granted
            /\ arg' = None

ActivatePaidLicenseOf(inputs) ==
    \E input \in inputs, f \in FaultSets(PaidPoints) :
        /\ Effects("activate_paid_license",
                   activate_paid_license(store, identity_cache, input, f), f,
                   activate_paid_license(store, identity_cache, input, {}))
        /\ arg' = Some(input)
        /\ UNCHANGED trial_granted

ActivatePaidLicense == ActivatePaidLicenseOf(LicenseKeyInputs)

ValidateCurrentLicense ==
    \E f \in FaultSets(ValidatePoints) :
        /\ Effects("validate_current_license",
                   validate_current_license(store, identity_cache, f), f,
                   validate_current_license(store, identity_cache, {}))
        /\ arg' = None
        /\ UNCHANGED trial_granted

DeactivateLicense ==
    \E f \in FaultSets(DeactivatePoints) :
        /\ Effects("deactivate_license",
                   deactivate_license(store, identity_cache, f), f,
                   deactivate_license(store, identity_cache, {}))
        /\ arg' = None
        /\ UNCHANGED trial_granted

(* A new process: IdentityManager::new() starts with an empty cache *)
Restart ==
    /\ identity_cache' = None
    /\ ret' = NoCall
    /\ arg' = None
    /\ UNCHANGED <<store, device, now, rng, ticks, faults, id_returned, trial_granted,
                   prior_trial, init_partial, mgr, networks, desktop>>

(* The machine's attributes change (hostname, interface, memory) to a set of
   values it has not had before *)
ChangeDevice ==
        /\ device < MaxDevices
        /\ device' = device + 1
        /\ ret' = NoCall
        /\ arg' = None
        /\ UNCHANGED <<store, identity_cache, now, rng, ticks, faults, id_returned,
                       trial_granted, prior_trial, init_partial, mgr, networks, desktop>>

(* Time passes *)
TickBy(steps) ==
    \E d \in steps :
        /\ ticks < MaxTicks
        /\ ticks' = ticks + 1
        /\ now' = now + d
        /\ ret' = NoCall
        /\ arg' = None
        /\ UNCHANGED <<store, identity_cache, device, rng, faults, id_returned,
                       trial_granted, prior_trial, init_partial, mgr, networks, desktop>>

Tick == TickBy(ClockSteps)

Next ==
    \/ InitializeIdentity
    \/ GetCurrentIdentity
    \/ DestroyIdentity
    \/ ActivateTrial
    \/ ActivatePaidLicense
    \/ ValidateCurrentLicense
    \/ DeactivateLicense
    \/ Restart
    \/ ChangeDevice
    \/ Tick

Spec == Init /\ [][Next]_vars

----------------------------------------------------------------------------
(* The LicenseManager's operations over a keyring whose calls all succeed,
   given every key string of PaidKeyInputs *)
WorkingActivateTrial == faults' = faults /\ ActivateTrial
WorkingActivatePaidLicense == faults' = faults /\ ActivatePaidLicenseOf(PaidKeyInputs)
WorkingValidateCurrentLicense == faults' = faults /\ ValidateCurrentLicense
WorkingDeactivateLicense == faults' = faults /\ DeactivateLicense

WorkingTick == TickBy(NearExpirySteps)

WorkingNext ==
    \/ WorkingActivateTrial
    \/ WorkingActivatePaidLicense
    \/ WorkingValidateCurrentLicense
    \/ WorkingDeactivateLicense
    \/ Restart
    \/ ChangeDevice
    \/ WorkingTick

SpecWorking == Init /\ [][WorkingNext]_vars

----------------------------------------------------------------------------
(* Somebody edits a licence record in the keyring: the license_id or the
   user_id gets another value, the signature stays as stored. *)
FORGED == "forged"

TamperedLicenses(license) ==
    {[license EXCEPT !.license_id = v] :
        v \in {<<"LIC", FORGED>>,
               generate_license_id(license.user_id, "Lifetime", license.activated_at)}
              \ {license.license_id}}
    \cup
    {[license EXCEPT !.user_id = v] : v \in {<<"USN", FORGED>>} \ {license.user_id}}

Tamper ==
    \E k \in DOMAIN store :
        /\ k[1] = "license"
        /\ \E license \in TamperedLicenses(store[k]) : store' = Put(store, k, license)
        /\ ret' = NoCall
        /\ arg' = None
        /\ UNCHANGED <<identity_cache, device, now, rng, ticks, faults, id_returned,
                       trial_granted, prior_trial, init_partial, mgr, networks, desktop>>

TamperActivatePaidLicense == faults' = faults /\ ActivatePaidLicense

TamperNext ==
    \/ WorkingActivateTrial
    \/ TamperActivatePaidLicense
    \/ WorkingValidateCurrentLicense
    \/ WorkingDeactivateLicense
    \/ Restart
    \/ Tamper

SpecTamper == Init /\ [][TamperNext]_vars

----------------------------------------------------------------------------
(* Two LicenseManager instances (two processes of the application) on the same
   keyring.  Neither manager nor the keyring crate holds a lock, so a call is
   a sequence of keyring calls, one per step; what a call does between two
   keyring calls is local and belongs to the step before.  The calls start
   once the keyring holds an identity, and every keyring call succeeds. *)
ConcurrentOps == {"deactivate_license", "activate_paid_license"}
ConcurrentKey == CHOOSE input \in LicenseKeyInputs : input.decodes

Finished(m, op, res) == [m EXCEPT !.pc = "done", !.res = Returned(op, res)]

(* One step of manager p: the keyring becomes st, the manager m *)
MgrStep(p, st, m) ==
    /\ store' = st
    /\ mgr' = [mgr EXCEPT ![p] = m]
    /\ ret' = m.res
    /\ arg' = None
    /\ UNCHANGED <<identity_cache, device, now, rng, ticks, faults, id_returned,
                   trial_granted, prior_trial, init_partial, networks, desktop>>

MgrStart(p) ==
    \E op \in ConcurrentOps :
        /\ mgr[p].pc = "idle"
        /\ IDENTITY \in DOMAIN store
        /\ MgrStep(p, store,
                   [mgr[p] EXCEPT !.pc = "identity", !.op = op,
                                  !.base = IF \A q \in Managers : mgr[q].pc = "idle"
                                           THEN store
                                           ELSE mgr[CHOOSE q \in Managers :
                                                       mgr[q].pc # "idle"].base])

(* get_current_identity()?, then decode_license_key(license_key)? and
   verify_device in activate_paid_license *)
MgrIdentity(p) ==
    /\ mgr[p].pc = "identity"
    /\ LET m == mgr[p]
           i == get_current_identity(store, m.cache, {})
           d == decode_license_key(ConcurrentKey)
           m1 == [m EXCEPT !.cache = i.cache]
       IN  /\ ~i.gen
           /\ MgrStep(p, i.store,
                  IF ~i.res.ok THEN Finished(m1, m.op, i.res)
                  ELSE IF m.op = "deactivate_license" THEN [m1 EXCEPT !.pc = "load"]
                  ELSE IF ~d.ok THEN Finished(m1, m.op, d)
                  ELSE IF ~verify_device(i.res.val, device)
                  THEN Finished(m1, m.op, Err("Device verification failed"))
                  ELSE [m1 EXCEPT !.pc = "count"])

(* deactivate_license: get_stored_license(&identity.user_id)? *)
MgrLoad(p) ==
    /\ mgr[p].pc = "load"
    /\ LET m == mgr[p]
           k == LicenseEntry(m.cache[1].user_id)
       IN  MgrStep(p, store,
              IF k \notin DOMAIN store THEN Finished(m, m.op, Err("keyring"))
              ELSE [m EXCEPT !.pc = "store",
                             !.license = Some([store[k] EXCEPT !.is_active = FALSE])])

(* activate_paid_license: get_activation_count(&decoded.key)?, the limit,
   and the License value built from it *)
MgrCount(p) ==
    /\ mgr[p].pc = "count"
    /\ LET m == mgr[p]
           identity == m.cache[1]
           decoded == decode_license_key(ConcurrentKey).val
           activation_count == get_activation_count(store, decoded.key, FALSE)
           license_id == generate_license_id(identity.user_id, decoded.license_type, now)
           license == [license_id |-> license_id,
                       user_id |-> identity.user_id,
                       license_type |-> decoded.license_type,
                       activated_at |-> now,
                       expires_at |-> IF decoded.duration_days = None THEN None
                                      ELSE Some(now + decoded.duration_days[1]),
                       device_fingerprint |-> identity.device_fingerprint,
                       features |-> decoded.features,
                       signature |-> sign_license(license_id, identity.user_id),
                       is_active |-> TRUE,
                       activation_count |-> activation_count + 1,
                       max_activations |-> decoded.max_activations]
       IN  MgrStep(p, store,
              IF activation_count >= decoded.max_activations
              THEN Finished(m, m.op, Err("License activation limit reached"))
              ELSE [m EXCEPT !.pc = "store", !.license = Some(license)])

(* store_license(&license)? of either operation *)
MgrStore(p) ==
    /\ mgr[p].pc = "store"
    /\ LET m == mgr[p]
           license == m.license[1]
       IN  MgrStep(p, Put(store, LicenseEntry(license.user_id), license),
              IF m.op = "deactivate_license" THEN Finished(m, m.op, Ok(None))
              ELSE [m EXCEPT !.pc = "record_count"])

(* record_activation: get_activation_count(license_key)? *)
MgrRecordCount(p) ==
    /\ mgr[p].pc = "record_count"
    /\ LET m == mgr[p]
           key == decode_license_key(ConcurrentKey).val.key
       IN  MgrStep(p, store,
              [m EXCEPT !.pc = "record_set",
                        !.count = get_activation_count(store, key, FALSE)])

(* record_activation: entry.set_password(&(count + 1).to_string())? *)
MgrRecordSet(p) ==
    /\ mgr[p].pc = "record_set"
    /\ LET m == mgr[p]
           key == decode_license_key(ConcurrentKey).val.key
       IN  MgrStep(p, Put(store, ActivationsEntry(key), m.count + 1),
              [m EXCEPT !.pc = "record_user"])

(* record_activation: activation_entry.set_password(user_id)? *)
MgrRecordUser(p) ==
    /\ mgr[p].pc = "record_user"
    /\ LET m == mgr[p]
           key == decode_license_key(ConcurrentKey).val.key
       IN  MgrStep(p, Put(store, ActivationEntry(key, m.count + 1), m.cache[1].user_id),
              Finished(m, m.op, Ok(m.license[1])))

(* What the keyring holds before the managers start: an earlier process has
   activated the trial, deactivated it, or neither. *)
ConcurrentSetup ==
    /\ mgr = Idle
    /\ WorkingActivateTrial \/ WorkingDeactivateLicense

ConcurrentNext ==
    \/ ConcurrentSetup
    \/ \E p \in Managers :
          \/ MgrStart(p)
          \/ MgrIdentity(p)
          \/ MgrLoad(p)
          \/ MgrCount(p)
          \/ MgrStore(p)
          \/ MgrRecordCount(p)
          \/ MgrRecordSet(p)
          \/ MgrRecordUser(p)

SpecConcurrent == Init /\ [][ConcurrentNext]_vars

----------------------------------------------------------------------------
(* The IdentityManager's operations over a keyring whose calls all succeed *)
WorkingInitializeIdentity == faults' = faults /\ InitializeIdentity
WorkingGetCurrentIdentity == faults' = faults /\ GetCurrentIdentity
WorkingDestroyIdentity == faults' = faults /\ DestroyIdentity

----------------------------------------------------------------------------
(* Device fingerprinting.  Every generate_device_fingerprint builds its own
   System (System::new_all()), whose interface map need not iterate in the
   order of the one before; the other specifications keep one order. *)
Reorder ==
    /\ networks' \in NetworkOrders \ {networks}
    /\ UNCHANGED <<store, identity_cache, device, now, rng, ticks, faults, ret,
                   id_returned, trial_granted, prior_trial, init_partial, arg, mgr, desktop>>

GenerateDeviceFingerprint ==
    /\ ret' = Returned("generate_device_fingerprint", Ok(generate_device_fingerprint(device)))
    /\ arg' = None
    /\ UNCHANGED <<store, identity_cache, device, now, rng, ticks, faults, id_returned,
                   trial_granted, prior_trial, init_partial, mgr, networks, desktop>>

(* verify_device(&identity) for the identity the manager has handed out *)
VerifyDevice ==
    /\ identity_cache # None
    /\ ret' = Returned("verify_device", Ok(<<verify_device(identity_cache[1], device)>>))
    /\ arg' = identity_cache
    /\ UNCHANGED <<store, identity_cache, device, now, rng, ticks, faults, id_returned,
                   trial_granted, prior_trial, init_partial, mgr, networks, desktop>>

FingerprintNext ==
    \/ WorkingInitializeIdentity
    \/ WorkingDestroyIdentity
    \/ Restart
    \/ ChangeDevice
    \/ Reorder
    \/ GenerateDeviceFingerprint
    \/ VerifyDevice

SpecFingerprint == Init /\ [][FingerprintNext]_vars

----------------------------------------------------------------------------
(* Signing, verification, proofs and export; the machine and the clock stay
   as they are.  A caller may hold any identity initialize_identity has
   returned, also after its record or its private key has gone. *)
HeldIdentities ==
    {[user_id |-> derive_user_id(k, generate_device_fingerprint(device)),
      public_key |-> k,
      created_at |-> now,
      device_fingerprint |-> generate_device_fingerprint(device),
      version |-> IDENTITY_VERSION] : k \in 1..rng}

(* Identities handed to verify_signature: a held one, or one whose public key
   bytes are not a public key *)
VerifyIdentities ==
    HeldIdentities \cup {[identity EXCEPT !.public_key = MALFORMED_KEY] : identity \in HeldIdentities}

Data == {<<"a">>, <<"b">>}
Nonces == {"n1", "n2"}
SignatureForms == {"intact", "bit", "high_bit", "short"}

IdentityCall(op, r, a) ==
    /\ ret' = Returned(op, r)
    /\ arg' = Some(a)
    /\ UNCHANGED <<store, identity_cache, device, now, rng, ticks, faults, id_returned,
                   trial_granted, prior_trial, init_partial, mgr, networks, desktop>>

SignData ==
    \E identity \in HeldIdentities, data \in Data :
        IdentityCall("sign_data", sign_data(store, identity, data),
                     [identity |-> identity, data |-> data])

(* verify_signature given what sign_data(signer, signed) returns, in one of
   the forms *)
VerifySignature ==
    \E identity \in VerifyIdentities, data \in Data,
       signer \in HeldIdentities, signed \in Data, form \in SignatureForms :
        LET made == sign_data(store, signer, signed)
            signature == [made.val EXCEPT !.form = form]
        IN  /\ made.ok
            /\ IdentityCall("verify_signature", verify_signature(identity, data, signature),
                            [identity |-> identity, data |-> data, signature |-> signature,
                             signer |-> signer, signed |-> signed])

CreateIdentityProof ==
    \E identity \in HeldIdentities, nonce \in Nonces :
        IdentityCall("create_identity_proof", create_identity_proof(store, identity, nonce),
                     [identity |-> identity, nonce |-> nonce])

ExportPublicIdentity ==
    \E identity \in HeldIdentities :
        IdentityCall("export_public_identity", Ok(export_public_identity(identity)),
                     [identity |-> identity])

(* The user removes a private key from the keychain *)
ClearKeychain ==
    \E k \in DOMAIN store :
        /\ k[1] = "private"
        /\ store' = Del(store, k)
        /\ ret' = NoCall
        /\ arg' = None
        /\ UNCHANGED <<identity_cache, device, now, rng, ticks, faults, id_returned,
                       trial_granted, prior_trial, init_partial, mgr, networks, desktop>>

SigningNext ==
    \/ WorkingInitializeIdentity
    \/ WorkingGetCurrentIdentity
    \/ WorkingDestroyIdentity
    \/ Restart
    \/ ClearKeychain
    \/ SignData
    \/ VerifySignature
    \/ CreateIdentityProof
    \/ ExportPublicIdentity

SpecSigning == Init /\ [][SigningNext]_vars

----------------------------------------------------------------------------
(* Remaining days of the stored licences, asked at any reading of the clock
   within the present day *)
GetRemainingDays ==
    \E k \in LicenseEntries(store), part \in 0..(DayLen - 1) :
        /\ ret' = Returned("get_remaining_days",
                           Ok(get_remaining_days(store[k], now * DayLen + part)))
        /\ arg' = Some([license |-> store[k], part |-> part])
        /\ UNCHANGED <<store, identity_cache, device, now, rng, ticks, faults, id_returned,
                       trial_granted, prior_trial, init_partial, mgr, networks, desktop>>

RemainingNext ==
    \/ WorkingActivateTrial
    \/ WorkingActivatePaidLicense
    \/ WorkingTick
    \/ GetRemainingDays

SpecRemaining == Init /\ [][RemainingNext]_vars

----------------------------------------------------------------------------
(* A second IdentityManager (another process, or the one inside a
   LicenseManager) on the same keyring; its cache is mgr[SECOND].cache.  Every
   keyring call succeeds. *)
SECOND == 2

OtherCall(op, r) ==
    /\ r.gen => rng < MaxKeys
    /\ store' = r.store
    /\ mgr' = [mgr EXCEPT ![SECOND].cache = r.cache]
    /\ rng' = IF r.gen THEN rng + 1 ELSE rng
    /\ ret' = Returned(op, r.res)
    /\ arg' = None
    /\ UNCHANGED <<identity_cache, device, now, ticks, faults, id_returned, trial_granted,
                   prior_trial, init_partial, networks, desktop>>

OtherInitializeIdentity ==
    OtherCall("initialize_identity", initialize_identity(store, mgr[SECOND].cache, {}))

OtherGetCurrentIdentity ==
    OtherCall("get_current_identity", get_current_identity(store, mgr[SECOND].cache, {}))

OtherDestroyIdentity ==
    LET r == destroy_identity(store, mgr[SECOND].cache, {})
    IN  OtherCall("destroy_identity", [res |-> r.res, store |-> r.store, cache |-> r.cache,
                                       gen |-> FALSE])

SharedNext ==
    \/ WorkingInitializeIdentity
    \/ WorkingGetCurrentIdentity
    \/ WorkingDestroyIdentity
    \/ Restart
    \/ OtherInitializeIdentity
    \/ OtherGetCurrentIdentity
    \/ OtherDestroyIdentity

SpecShared == Init /\ [][SharedNext]_vars

----------------------------------------------------------------------------
(* A LicenseManager owns its IdentityManager (LicenseManager::new takes it by
   value and has no destroy operation), so an identity is destroyed and made
   anew through another IdentityManager while the LicenseManager lives. *)
ReissueNext ==
    \/ WorkingActivateTrial
    \/ WorkingValidateCurrentLicense
    \/ Restart
    \/ OtherInitializeIdentity
    \/ OtherGetCurrentIdentity
    \/ OtherDestroyIdentity

SpecReissue == Init /\ [][ReissueNext]_vars

----------------------------------------------------------------------------
(* SystemState of the desktop commands.  The clock is read once per add_log
   and has moved on by the next one. *)
LogEntry(timestamp, level, message, source) ==
    [timestamp |-> timestamp, level |-> level, message |-> message, source |-> source]

(* The log line "[timestamp] [level] [source] message" as its four parts *)
format_line(timestamp, level, source, message) ==
    [timestamp |-> timestamp, level |-> level,
     source |-> IF source = None THEN "system" ELSE source[1], message |-> message]

parse_line(line) == LogEntry(line.timestamp, line.level, line.message, Some(line.source))

(* SystemState::new: every line of the log file that parses, and no limits *)
SystemState_new(file) ==
    [logs |-> [i \in 1..Len(file) |-> parse_line(file[i])],
     bandwidth_limits |-> BandwidthLimits(0, 0, FALSE)]

(* logs.drain(0..len - limit) *)
drain(l) ==
    IF Len(l) > MaxLogs THEN SubSeq(l, Len(l) - MaxLogs + 1, Len(l)) ELSE l

(* add_log; written tells whether the append to the log file succeeded (its
   result is discarded) *)
add_log(l, file, level, message, source, written) ==
    [logs |-> drain(Append(l, LogEntry(now, level, message, source))),
     log_file |-> IF written THEN Append(file, format_line(now, level, source, message))
                  ELSE file]

(* The merge loop of get_logs *)
RECURSIVE merge(_, _)
merge(l, backend_logs) ==
    IF backend_logs = <<>> THEN l
    ELSE LET log == Head(backend_logs)
             known == \E i \in 1..Len(l) :
                          l[i].timestamp = log.timestamp /\ l[i].message = log.message
         IN  merge(IF known THEN l ELSE Append(l, log), Tail(backend_logs))

(* The level filter of get_logs *)
filtered(l, filter) ==
    IF filter = None THEN l ELSE SelectSeq(l, LAMBDA log : log.level = filter[1])

(* What running the Python backend gives: it cannot be started, exits with
   failure, prints something that is no list of log entries, or prints one *)
BackendLog(k) == LogEntry(-k, "INFO", <<"backend">>, Some("backend"))
BackendOutputs == {<<"spawn_error">>, <<"exit_failure">>, <<"bad_json">>,
                   <<"logs", <<>>>>, <<"logs", <<BackendLog(1)>>>>,
                   <<"logs", <<BackendLog(1), BackendLog(2)>>>>}

get_logs(l, filter, output) ==
    LET merged == IF output[1] = "logs" THEN merge(l, output[2]) ELSE l
    IN  [logs |-> merged, res |-> Ok(filtered(merged, filter))]

(* u32 multiplication by 1024: overflow panics in a build with overflow checks
   and wraps in one without *)
U32_BITS == 32
overflows_times_1024(kbps) == kbps >= 2^(U32_BITS - 10)

(* set_bandwidth_limit that stores the limits whatever the backend says *)
set_bandwidth_limit_unchecked(limits, l, file, input, output, checked, written) ==
    IF input.enabled /\ checked
       /\ (overflows_times_1024(input.upload_kbps) \/ overflows_times_1024(input.download_kbps))
    THEN [res |-> Err("panic"), bandwidth_limits |-> limits, logs |-> l, log_file |-> file]
    ELSE LET logged == add_log(l, file, "INFO",
                               <<"Bandwidth limits updated", input.upload_kbps,
                                 input.download_kbps, input.enabled>>,
                               Some("system"), written)
         IN  [res |-> IF output = "success" THEN Ok(None) ELSE Err(output),
              bandwidth_limits |-> input, logs |-> logged.logs, log_file |-> logged.log_file]

set_bandwidth_limit(limits, l, file, input, output, checked, written) ==
    IF input.enabled /\ checked
       /\ (overflows_times_1024(input.upload_kbps) \/ overflows_times_1024(input.download_kbps))
    THEN [res |-> Err("panic"), bandwidth_limits |-> limits, logs |-> l, log_file |-> file]
    ELSE IF output = "spawn_error"
    THEN [res |-> Err(output), bandwidth_limits |-> limits, logs |-> l, log_file |-> file]
    ELSE IF output = "exit_failure"
    THEN [res |-> Err(output), bandwidth_limits |-> limits, logs |-> l, log_file |-> file]
    ELSE LET logged == add_log(l, file, "INFO",
                               <<"Bandwidth limits updated", input.upload_kbps,
                                 input.download_kbps, input.enabled>>,
                               Some("system"), written)
         IN  [res |-> Ok(None), bandwidth_limits |-> input,
              logs |-> logged.logs, log_file |-> logged.log_file]

get_bandwidth_limit(limits) == Ok(limits)

(* Inputs of the commands *)
AddLogInputs == {<<"INFO", Some("system")>>, <<"ERROR", None>>}
Filters == {None, Some("ERROR")}
BandwidthInputs == {BandwidthLimits(512, 256, TRUE), BandwidthLimits(2^(U32_BITS - 10), 0, TRUE),
                    BandwidthLimits(2^(U32_BITS - 10), 64, FALSE)}
CommandOutputs == {"spawn_error", "exit_failure", "success"}

(* The application starts: init_system_commands *)
NewSystemState ==
    /\ logs' = SystemState_new(log_file).logs
    /\ bandwidth_limits' = SystemState_new(log_file).bandwidth_limits
    /\ ret' = NoCall
    /\ arg' = None
    /\ UNCHANGED <<managers, now, log_file, MOCK_STATE>>

AddLog ==
    \E input \in AddLogInputs, written \in BOOLEAN :
        LET r == add_log(logs, log_file, input[1], <<"message">>, input[2], written)
        IN  /\ now < MaxAddLogs
            /\ now' = now + 1
            /\ logs' = r.logs
            /\ log_file' = r.log_file
            /\ ret' = Returned("add_log", Ok(None))
            /\ arg' = None
            /\ UNCHANGED <<managers, bandwidth_limits, MOCK_STATE>>

GetLogs ==
    \E filter \in Filters, output \in BackendOutputs :
        LET r == get_logs(logs, filter, output)
        IN  /\ logs' = r.logs
            /\ ret' = Returned("get_logs", r.res)
            /\ arg' = None
            /\ UNCHANGED <<managers, now, log_file, bandwidth_limits, MOCK_STATE>>

SetBandwidthLimit ==
    \E input \in BandwidthInputs, output \in CommandOutputs, checked \in BOOLEAN,
       written \in BOOLEAN :
        LET r == set_bandwidth_limit(bandwidth_limits, logs, log_file, input, output,
                                     checked, written)
        IN  /\ now < MaxAddLogs
            /\ now' = IF r.res.ok THEN now + 1 ELSE now
            /\ bandwidth_limits' = r.bandwidth_limits
            /\ logs' = r.logs
            /\ log_file' = r.log_file
            /\ ret' = Returned("set_bandwidth_limit", r.res)
            /\ arg' = <<input, output>>
            /\ UNCHANGED <<managers, MOCK_STATE>>

GetBandwidthLimit ==
    /\ ret' = Returned("get_bandwidth_limit", get_bandwidth_limit(bandwidth_limits))
    /\ arg' = None
    /\ UNCHANGED <<managers, now, logs, log_file, bandwidth_limits, MOCK_STATE>>

(* The log list: start of the application, add_log, get_logs *)
LogsNext ==
    \/ NewSystemState
    \/ AddLog
    \/ GetLogs

SpecLogs == Init /\ [][LogsNext]_vars

(* The bandwidth limits: start of the application and the two commands *)
BandwidthNext ==
    \/ NewSystemState
    \/ SetBandwidthLimit
    \/ GetBandwidthLimit

SpecBandwidth == Init /\ [][BandwidthNext]_vars

----------------------------------------------------------------------------
(* The stub TurboActivate.  A string is the sequence of its characters' code
   points; str::len is the length of its UTF-8 encoding in bytes.  Every method
   holds the MOCK_STATE mutex from its first statement to its return, and every
   command holds the AppState.license mutex likewise, so concurrent commands
   interleave as whole calls. *)
DASH == 45
MIN_PRODUCT_KEY_LEN == 16

len_utf8(c) == IF c < 128 THEN 1 ELSE IF c < 2048 THEN 2 ELSE IF c < 65536 THEN 3 ELSE 4

RECURSIVE str_len(_)
str_len(s) == IF s = <<>> THEN 0 ELSE len_utf8(Head(s)) + str_len(Tail(s))

str_contains(s, c) == \E i \in 1..Len(s) : s[i] = c

activate(state, product_key) ==
    IF str_len(product_key) >= MIN_PRODUCT_KEY_LEN /\ str_contains(product_key, DASH)
    THEN [res |-> Ok(None),
          state |-> [state EXCEPT !.is_activated = TRUE, !.product_key = Some(product_key)]]
    ELSE [res |-> Err("Invalid product key format"), state |-> state]

deactivate(state) ==
    [res |-> Ok(None), state |-> [state EXCEPT !.is_activated = FALSE, !.product_key = None]]

is_activated(state) == Ok(<<state.is_activated>>)

is_genuine(state) == Ok(<<state.is_genuine /\ state.is_activated>>)

get_trial_days_remaining(state) ==
    IF state.is_activated THEN Ok(<<0>>) ELSE Ok(<<state.trial_days>>)

start_trial(state) == [res |-> Ok(None), state |-> [state EXCEPT !.trial_days = 30]]

get_hardware_id(d) == <<"hw", d>>

(* The check_license command *)
check_license(state, d) ==
    LET activated == is_activated(state).val[1]
        days == get_trial_days_remaining(state).val[1]
    IN  Ok([activated |-> activated,
            genuine |-> is_genuine(state).val[1],
            trial |-> IF ~activated THEN days > 0 ELSE FALSE,
            trial_days |-> IF ~activated THEN Some(days) ELSE None,
            hardware_id |-> get_hardware_id(d),
            tier |-> ""])

(* Product keys: letters in groups of four between dashes (19 and 16
   characters), 15 characters with dashes, 16 letters without a dash, eight
   two-byte letters and a dash (9 characters, 17 bytes), the empty string *)
Grouped(n, c) == [i \in 1..n |-> IF i % 5 = 0 THEN DASH ELSE c]
ProductKeys == {Grouped(19, 65), Grouped(19, 66), Grouped(16, 65), Grouped(15, 65),
                [i \in 1..16 |-> 65], [i \in 1..9 |-> IF i = 9 THEN DASH ELSE 233], <<>>}

StubCall(op, res, state, a) ==
    /\ MOCK_STATE' = state
    /\ ret' = Returned(op, res)
    /\ arg' = a
    /\ UNCHANGED <<managers, now, logs, log_file, bandwidth_limits>>

Activate ==
    \E key \in ProductKeys :
        StubCall("activate", activate(MOCK_STATE, key).res, activate(MOCK_STATE, key).state,
                 Some(key))

Deactivate ==
    StubCall("deactivate", deactivate(MOCK_STATE).res, deactivate(MOCK_STATE).state, None)

StartTrial ==
    StubCall("start_trial", start_trial(MOCK_STATE).res, start_trial(MOCK_STATE).state, None)

IsActivated == StubCall("is_activated", is_activated(MOCK_STATE), MOCK_STATE, None)

IsGenuine == StubCall("is_genuine", is_genuine(MOCK_STATE), MOCK_STATE, None)

GetTrialDaysRemaining ==
    StubCall("get_trial_days_remaining", get_trial_days_remaining(MOCK_STATE), MOCK_STATE, None)

(* The commands of main.rs *)
ActivateLicenseCommand ==
    \E key \in ProductKeys :
        LET r == activate(MOCK_STATE, key)
        IN  StubCall("activate_license", IF r.res.ok THEN Ok(<<TRUE>>) ELSE r.res, r.state,
                     Some(key))

CheckLicenseCommand ==
    StubCall("check_license", check_license(MOCK_STATE, device), MOCK_STATE, None)

StartTrialCommand ==
    LET r == start_trial(MOCK_STATE)
    IN  StubCall("start_trial_command", IF r.res.ok THEN Ok(<<30>>) ELSE r.res, r.state, None)

DeactivateLicenseCommand ==
    StubCall("deactivate_license_command", deactivate(MOCK_STATE).res,
             deactivate(MOCK_STATE).state, None)

StubNext ==
    \/ Activate
    \/ Deactivate
    \/ StartTrial
    \/ IsActivated
    \/ IsGenuine
    \/ GetTrialDaysRemaining
    \/ ActivateLicenseCommand
    \/ CheckLicenseCommand
    \/ StartTrialCommand
    \/ DeactivateLicenseCommand
    \/ ChangeDevice

SpecStub == Init /\ [][StubNext]_vars

----------------------------------------------------------------------------
(* Properties *)

TRIAL_USED == "Trial already used for this identity"

(* C1: between two destroy_identity calls, process restarts included, every
   get_current_identity that returns an identity returns the same user_id. *)
C1_SameUserId == [][Cardinality(id_returned') <= 1]_vars

RecordKept ==
    IDENTITY \in DOMAIN store =>
        \/ IDENTITY \in DOMAIN store' /\ store'[IDENTITY] = store[IDENTITY]
        \/ IDENTITY \notin DOMAIN store' /\ ret'.op = "destroy_identity"

(* C2: a step that starts with an identity record in the keyring ends with the
   same record there, or, if the step is destroy_identity, with none. *)
C2_RecordNeverReplaced == [][RecordKept]_vars

SecondTrialRefused ==
    (/\ ret'.op = "activate_trial"
     /\ identity_cache' # None
     /\ identity_cache'[1].user_id \in trial_granted)
    => ~ret'.ok /\ ret'.err = TRIAL_USED

(* C3: an activate_trial call for a user_id that activate_trial has already
   granted a trial fails with the trial-already-used error. *)
C3_TrialOnce == [][SecondTrialRefused]_vars

(* C4: once an identity that had been granted a trial has been destroyed,
   activate_trial for the identity created afterwards on the same keyring
   fails with the trial-already-used error. *)
C4_TrialSurvivesDestroy ==
    (/\ ret.op = "activate_trial"
     /\ prior_trial # {}
     /\ identity_cache # None
     /\ identity_cache[1].user_id \notin prior_trial)
    => ~ret.ok /\ ret.err = TRIAL_USED

(* The five conditions of a valid licence, on the licence stored in keyring
   st for the identity in cache, the machine's attributes d and the time t *)
StoredLicenseValid(st, cache, d, t) ==
    /\ cache # None
    /\ LicenseEntry(cache[1].user_id) \in DOMAIN st
    /\ LET license == st[LicenseEntry(cache[1].user_id)]
       IN  /\ license.user_id = cache[1].user_id
           /\ license.device_fingerprint = generate_device_fingerprint(d)
           /\ license.signature = sign_license(license.license_id, license.user_id)
           /\ license.is_active
           /\ license.expires_at = None \/ license.expires_at[1] > t

ReturnedValid(r) == r.op = "validate_current_license" /\ r.ok /\ r.val[1]

ValidIffConditions ==
    (ret'.op = "validate_current_license" /\ faults' = 0)
    => (ReturnedValid(ret') <=> StoredLicenseValid(store', identity_cache', device', now'))

(* C5: validate_current_license returns (true, licence) exactly when the
   stored licence meets the five conditions.  Stated for behaviours in which
   no keyring call has failed, where the stored licence is the one read. *)
C5_ValidIffConditions == [][ValidIffConditions]_vars

ValidOnlyOnIssuingDevice ==
    ReturnedValid(ret')
    => ret'.val[2][1].device_fingerprint = generate_device_fingerprint(device')

(* C6: a licence whose device fingerprint is not the fingerprint of the
   machine's present attributes never validates. *)
C6_DeviceRebinding == [][ValidOnlyOnIssuingDevice]_vars

(* C7: validate_current_license never returns an error. *)
C7_ValidateNeverErrs == ret.op = "validate_current_license" => ret.ok

DestroyErased ==
    (ret'.op = "destroy_identity" /\ ret'.ok /\ faults' = 0)
    => /\ IDENTITY \notin DOMAIN store'
       /\ identity_cache' = None
       /\ IDENTITY \in DOMAIN store
            => PrivateEntry(store[IDENTITY].user_id) \notin DOMAIN store'

(* C8: when destroy_identity returns Ok the keyring holds no identity record,
   no private key of the identity it held, and the cache is empty.  Stated
   for behaviours in which no keyring call has failed. *)
C8_DestroyErases == [][DestroyErased]_vars

InitAfterPartialFails ==
    (init_partial /\ ret'.op = "initialize_identity") => ~ret'.ok

(* C9: after an initialize_identity that stored the private key and failed to
   write the identity record, the next initialize_identity returns an error. *)
C9_PartialInitIsFatal == [][InitAfterPartialFails]_vars

AtomicOps == {"activate_trial", "activate_paid_license", "deactivate_license",
              "initialize_identity"}

ErrorLeftStore ==
    (ret'.op \in AtomicOps /\ ~ret'.ok) => store' = store

(* C10: an operation that returns an error leaves every keyring entry as it
   was before the call. *)
C10_ErrorLeavesStore == [][ErrorLeftStore]_vars

(* The keyring after op has run alone, start to end, from keyring st *)
SerialStore(op, st) ==
    IF op = "deactivate_license" THEN deactivate_license(st, None, {}).store
    ELSE activate_paid_license(st, None, ConcurrentKey, {}).store

(* C11: when a deactivate_license and an activate_paid_license of two managers
   on the same identity have both returned, the keyring is what one of the two
   serial orders of the calls leaves: no update is lost. *)
C11_SerializedUpdates ==
    (/\ \A p \in Managers : mgr[p].pc = "done"
     /\ {mgr[p].op : p \in Managers} = ConcurrentOps)
    => store \in {SerialStore(mgr[2].op, SerialStore(mgr[1].op, mgr[1].base)),
                  SerialStore(mgr[1].op, SerialStore(mgr[2].op, mgr[1].base))}

LicenseOnlyDeactivated ==
    \A k \in LicenseEntries(store) :
        /\ k \in DOMAIN store'
        /\ \/ store'[k] = store[k]
           \/ /\ ret'.op = "deactivate_license"
              /\ store[k].is_active
              /\ store'[k] = [store[k] EXCEPT !.is_active = FALSE]

(* C12: a stored licence record changes in one way only: deactivate_license
   turns is_active from true to false.  No step replaces a stored licence or
   makes an inactive one active. *)
C12_LicenseOnlyDeactivated == [][LicenseOnlyDeactivated]_vars

LicenseKept == \A k \in LicenseEntries(store) : k \in DOMAIN store'

(* C13: a keyring that holds a licence for a user_id holds a licence for that
   user_id after every step, deactivate_license and destroy_identity
   included. *)
C13_LicenseNeverDeleted == [][LicenseKept]_vars

C13_Witness ==
    /\ ret.op = "destroy_identity"
    /\ IDENTITY \notin DOMAIN store
    /\ LicenseEntries(store) # {}

INVALID == <<FALSE, None>>

SoftRevocation ==
    /\ ret'.op = "deactivate_license" =>
          LET had == /\ IDENTITY \in DOMAIN store
                     /\ LicenseEntry(store[IDENTITY].user_id) \in DOMAIN store
              k == LicenseEntry(store[IDENTITY].user_id)
          IN  IF had
              THEN /\ ret'.ok
                   /\ store' = Put(store, k, [store[k] EXCEPT !.is_active = FALSE])
              ELSE ~ret'.ok /\ store' = store
    /\ (/\ ret'.op = "validate_current_license"
        /\ identity_cache' # None
        /\ LicenseEntry(identity_cache'[1].user_id) \in DOMAIN store'
        /\ ~store'[LicenseEntry(identity_cache'[1].user_id)].is_active)
       => ret'.ok /\ ret'.val = INVALID

(* C14: a deactivate_license that finds a licence returns Ok and leaves the
   record in the keyring with is_active = false and nothing else changed;
   while the record is inactive validate_current_license returns
   (false, None); a deactivate_license that finds no licence returns an error
   and changes nothing. *)
C14_SoftRevocation == [][SoftRevocation]_vars

(* The record under entry k is not what an activation wrote there *)
LicenseTampered(k, license) ==
    \/ license.user_id # k[2]
    \/ license.license_id #
         generate_license_id(k[2], license.license_type, license.activated_at)

TamperDetected ==
    (/\ ret'.op = "validate_current_license"
     /\ identity_cache' # None
     /\ LicenseEntry(identity_cache'[1].user_id) \in DOMAIN store'
     /\ LicenseTampered(LicenseEntry(identity_cache'[1].user_id),
                        store'[LicenseEntry(identity_cache'[1].user_id)]))
    => ret'.ok /\ ret'.val = INVALID

(* C15: when the license_id or the user_id of the stored licence has been
   changed and the signature left as stored, validate_current_license returns
   (false, None). *)
C15_TamperDetected == [][TamperDetected]_vars

C15_Witness ==
    /\ ret.op = "validate_current_license"
    /\ ret.val = INVALID
    /\ identity_cache # None
    /\ LicenseEntry(identity_cache[1].user_id) \in DOMAIN store
    /\ LET license == store[LicenseEntry(identity_cache[1].user_id)]
       IN  /\ license.user_id = identity_cache[1].user_id
           /\ license.license_id #
                generate_license_id(license.user_id, license.license_type,
                                    license.activated_at)
           /\ license.is_active
           /\ license.device_fingerprint = generate_device_fingerprint(device)
           /\ license.expires_at # None /\ license.expires_at[1] > now

(* Every field of the licence other than expires_at is valid for the identity
   in cache on a machine with attributes d *)
OtherFieldsValid(license, cache, d) ==
    /\ license.user_id = cache[1].user_id
    /\ license.device_fingerprint = generate_device_fingerprint(d)
    /\ license.signature = sign_license(license.license_id, license.user_id)
    /\ license.is_active

ExpiryDecides ==
    (/\ ret'.op = "validate_current_license"
     /\ identity_cache' # None
     /\ LicenseEntry(identity_cache'[1].user_id) \in DOMAIN store')
    => LET license == store'[LicenseEntry(identity_cache'[1].user_id)]
       IN  /\ (license.expires_at # None /\ license.expires_at[1] < now')
                => ret'.ok /\ ret'.val = INVALID
           /\ (/\ license.expires_at # None
               /\ license.expires_at[1] = now' + 1
               /\ OtherFieldsValid(license, identity_cache', device'))
                => ret'.ok /\ ret'.val = <<TRUE, Some(license)>>

(* C16: validate_current_license, whenever it is called, returns
   (false, None) for a licence whose expires_at is before the present time
   (one unit of the clock before it included) and (true, licence) for one
   whose expires_at is one unit after it and whose other fields are valid. *)
C16_ExpiryBoundary == [][ExpiryDecides]_vars

C16_Witness ==
    /\ ret.op = "validate_current_license"
    /\ ret.val[1]
    /\ ret.val[2][1].expires_at = Some(now + 1)

FreshTrial ==
    /\ (store = EmptyStore /\ ret'.op = "activate_trial")
       => /\ ret'.ok
          /\ IDENTITY \in DOMAIN store'
          /\ LET license == ret'.val
                 identity == store'[IDENTITY]
             IN  /\ license.license_type = "Trial"
                 /\ license.is_active
                 /\ license.activated_at = now'
                 /\ license.expires_at = Some(now' + 30)
                 /\ license.features.max_storage_gb = Some(10)
                 /\ license.user_id = identity.user_id
                 /\ license.device_fingerprint = identity.device_fingerprint
                 /\ license.device_fingerprint = generate_device_fingerprint(device')
                 /\ store'[LicenseEntry(identity.user_id)] = license
    /\ (ret.op = "activate_trial" /\ ret.ok /\ ret'.op = "validate_current_license")
       => ret'.ok /\ ret'.val = <<TRUE, Some(ret.val)>>

(* C17: activate_trial on an empty keyring returns Ok with an active Trial
   licence that expires 30 days after the activation, has the trial features
   (max_storage_gb = 10) and carries the user_id and fingerprint of the
   identity the call created; a validate_current_license that follows a
   successful activate_trial returns (true, that licence). *)
C17_FreshTrial == [][FreshTrial]_vars

C17_Witness ==
    /\ ret.op = "validate_current_license"
    /\ ret.val[1]
    /\ ret.val[2][1].license_type = "Trial"
    /\ ret.val[2][1].activated_at = now
    /\ DOMAIN store = {IDENTITY, PrivateEntry(ret.val[2][1].user_id),
                       LicenseEntry(ret.val[2][1].user_id),
                       TrialEntry(ret.val[2][1].user_id)}

(* Licence records and activation counters of keyring st *)
LicenseState(st) ==
    [k \in {x \in DOMAIN st : x[1] \in {"license", "activations", "activation"}} |-> st[k]]

WrongPriceRefused ==
    (/\ ret'.op = "activate_paid_license"
     /\ arg'[1].decodes
     /\ "price" \in DOMAIN arg'[1].payload
     /\ arg'[1].payload.price # 2999)
    => /\ ~ret'.ok
       /\ ret'.err = "Invalid license key format"
       /\ LicenseState(store') = LicenseState(store)

(* C18: activate_paid_license given a key whose price is not 29.99 returns
   the invalid-key error and leaves the stored licences and the activation
   counters as they were. *)
C18_WrongPriceRefused == [][WrongPriceRefused]_vars

(* C19: the features of every stored licence are the feature set of its
   license_type. *)
C19_FeaturesFollowType ==
    \A k \in LicenseEntries(store) : store[k].features = features_of(store[k].license_type)

DEVICE_FAILED == "Device verification failed"

(* An activation has been called on a machine whose fingerprint is not the
   one in the identity the call worked with *)
ActivationOnChangedDevice ==
    /\ ret'.op \in {"activate_trial", "activate_paid_license"}
    /\ identity_cache' # None
    /\ identity_cache'[1].device_fingerprint # generate_device_fingerprint(device')

ChangedDeviceRefused ==
    ActivationOnChangedDevice
    => ~ret'.ok /\ ret'.err = DEVICE_FAILED /\ store' = store

(* C20: activate_trial and activate_paid_license called when the machine's
   fingerprint differs from the identity's fail with the device-verification
   error and leave the keyring as it was: no licence, no trial marker, no
   activation counter is written. *)
C20_ChangedDeviceRefused == [][ChangedDeviceRefused]_vars

(* A check the operation makes before verify_device has refused the call *)
RefusedEarlier ==
    \/ /\ ret'.op = "activate_trial"
       /\ TrialEntry(identity_cache'[1].user_id) \in DOMAIN store
    \/ /\ ret'.op = "activate_paid_license"
       /\ ~arg'[1].decodes \/ arg'[1].payload.key_len < MIN_KEY_LEN

ChangedDeviceNeverActivates ==
    ActivationOnChangedDevice
    => /\ ~ret'.ok
       /\ store' = store
       /\ ~RefusedEarlier => ret'.err = DEVICE_FAILED

(* C20 as amended: such a call fails and leaves the keyring as it was; the
   error is the device-verification error unless an earlier check of the
   operation (trial already used, key not decodable or too short) has refused
   the call. *)
C20_ChangedDeviceNeverActivates == [][ChangedDeviceNeverActivates]_vars

C20_Witness ==
    /\ ret.op = "activate_trial"
    /\ ret.err = DEVICE_FAILED
    /\ identity_cache # None
    /\ identity_cache[1].device_fingerprint # generate_device_fingerprint(device)
    /\ LicenseEntries(store) = {}

FingerprintStable ==
    /\ (/\ ret.op = "generate_device_fingerprint"
        /\ ret'.op = "generate_device_fingerprint"
        /\ device' = device)
       => ret'.val = ret.val
    /\ (/\ ret'.op = "verify_device"
        /\ arg'[1].device_fingerprint[2] = device')
       => ret'.val = <<TRUE>>

(* C25: two generate_device_fingerprint calls on a machine whose attributes
   have not changed return the same digest, in whatever order the interfaces
   are reported, and verify_device is true for an identity created on the
   machine as it is. *)
C25_FingerprintStable == [][FingerprintStable]_vars

InitReportsCreation ==
    (ret'.op = "initialize_identity" /\ ret'.ok)
    => /\ IF IDENTITY \in DOMAIN store
          THEN ret'.val = <<store[IDENTITY], FALSE>>
          ELSE ret'.val[2] = TRUE
       /\ (ret.op = "initialize_identity" /\ ret.ok /\ ret.val[2])
            => ret'.val[2] = FALSE /\ ret'.val[1].user_id = ret.val[1].user_id

(* C21: an initialize_identity that returns Ok returns (stored identity, false)
   when the keyring held an identity record before the call and created =
   true when it held none; the call after one that created an identity
   returns false with the same user_id. *)
C21_InitReportsCreation == [][InitReportsCreation]_vars

RoundTrip ==
    (ret'.op = "verify_signature" /\ arg'[1].signer = arg'[1].identity)
    => LET a == arg'[1]
       IN  /\ (a.signature.form = "intact" /\ a.signed = a.data)
                => ret'.ok /\ ret'.val = <<TRUE>>
           /\ (\/ a.signature.form \in {"bit", "high_bit"} /\ a.signed = a.data
               \/ a.signature.form = "intact" /\ a.signed # a.data)
                => ret'.ok /\ ret'.val = <<FALSE>>

(* C22: for an identity whose private key is in the keyring, verify_signature
   of data and the signature sign_data made for that data returns true; with
   one bit of that signature flipped, or with other data, it returns false. *)
C22_RoundTrip == [][RoundTrip]_vars

(* C23: verify_signature never returns an error, whatever bytes it is given
   as signature and as the identity's public key. *)
C23_VerifyNeverErrs == ret.op = "verify_signature" => ret.ok

SignNeedsKey ==
    ret'.op \in {"sign_data", "create_identity_proof"}
    => IF PrivateEntry(arg'[1].identity.user_id) \in DOMAIN store
       THEN ret'.ok
       ELSE ~ret'.ok /\ ret'.err = KEY_NOT_FOUND

(* C24: sign_data and create_identity_proof return Ok while the keyring holds
   the private key of identity.user_id, and fail with the key-not-found error
   once it does not, whether or not the identity is still cached. *)
C24_SignNeedsKey == [][SignNeedsKey]_vars

C24_Witness ==
    /\ ret.op = "sign_data"
    /\ ret.err = KEY_NOT_FOUND
    /\ identity_cache = Some(arg[1].identity)
    /\ IDENTITY \in DOMAIN store

Secrets == {<<"secret", k>> : k \in 1..MaxKeys}
IdentityFields == {"user_id", "public_key", "created_at", "device_fingerprint", "version"}
ExportFields == {"user_id", "public_key", "created_at", "version"}

(* Record r has the fields given and none of those listed in among is a
   private key *)
Public(r, fields, among) ==
    /\ DOMAIN r = fields
    /\ \A x \in among : r[x] \notin Secrets

(* C27: the cached identity, the stored identity record and the output of
   export_public_identity have their public fields only (the export: user_id,
   public key, created_at, version) and none of them is a private key; the
   keyring holds a private key only under the entry of the user_id derived
   from its public key. *)
C27_PrivateKeyConfined ==
    /\ identity_cache # None
         => Public(identity_cache[1], IdentityFields, {"user_id", "device_fingerprint"})
    /\ IDENTITY \in DOMAIN store
         => Public(store[IDENTITY], IdentityFields, {"user_id", "device_fingerprint"})
    /\ ret.op = "export_public_identity"
         => /\ ret.val[1] = "base64" /\ ret.val[2][1] = "json"
            /\ Public(ret.val[2][2], ExportFields, {"user_id", "public_key"})
    /\ \A k \in DOMAIN store :
         k[1] = "private" => store[k] \in Secrets /\ k[2][2] = store[k][2]

C27_Witness ==
    /\ ret.op = "export_public_identity"
    /\ PrivateEntry(arg[1].identity.user_id) \in DOMAIN store
    /\ identity_cache = Some(arg[1].identity)

ValidateReadOnly == ret'.op = "validate_current_license" => store' = store

(* C26: validate_current_license leaves every keyring entry as it was, also
   when the keyring holds no identity. *)
C26_ValidateReadOnly == [][ValidateReadOnly]_vars

PaidExpiry ==
    /\ (ret'.op = "activate_paid_license" /\ ret'.ok)
       => LET duration_days == arg'[1].payload.duration_days
          IN  /\ ret'.val.activated_at = now'
              /\ ret'.val.expires_at = IF duration_days = None THEN None
                                       ELSE Some(now' + duration_days[1])
              /\ store'[LicenseEntry(ret'.val.user_id)] = ret'.val
    /\ (/\ ret'.op = "validate_current_license"
        /\ identity_cache' # None
        /\ LicenseEntry(identity_cache'[1].user_id) \in DOMAIN store'
        /\ store'[LicenseEntry(identity_cache'[1].user_id)].expires_at = None
        /\ OtherFieldsValid(store'[LicenseEntry(identity_cache'[1].user_id)],
                            identity_cache', device'))
       => /\ ret'.ok
          /\ ret'.val = <<TRUE, Some(store'[LicenseEntry(identity_cache'[1].user_id)])>>

(* C28: the licence a successful activate_paid_license returns and stores has
   expires_at = time of the call + duration_days of the key, and no expires_at
   when the key has no duration; validate_current_license, whenever it is
   called, accepts a licence without expires_at whose other fields are
   valid. *)
C28_PaidExpiry == [][PaidExpiry]_vars

C28_Witness ==
    /\ ret.op = "validate_current_license"
    /\ ret.val[1]
    /\ ret.val[2][1].expires_at = None
    /\ now > ret.val[2][1].activated_at + TRIAL_DAYS

RemainingDays ==
    ret'.op = "get_remaining_days"
    => LET license == arg'[1].license
           t == now' * DayLen + arg'[1].part
       IN  /\ ret'.val = None <=> license.expires_at = None
           /\ license.expires_at # None
                => LET r == ret'.val[1]
                       left == license.expires_at[1] * DayLen - t
                   IN  /\ left >= 0 => r >= 0 /\ r * DayLen <= left /\ left < (r + 1) * DayLen
                       /\ left < 0 => r <= 0 /\ r * DayLen >= left /\ left > (r - 1) * DayLen
                       /\ (license.license_type = "Trial" /\ license.activated_at = now')
                            => r \in {30, 29}

(* C29: get_remaining_days returns None exactly for a licence without
   expires_at; otherwise the whole days of expires_at - now with the fraction
   dropped: not negative before expiry, not positive after it, and 30 or 29
   on the day of activate_trial. *)
C29_RemainingDays == [][RemainingDays]_vars

C29_Witness ==
    /\ ret.op = "get_remaining_days"
    /\ ret.val = Some(0)
    /\ arg[1].license.expires_at[1] * DayLen < now * DayLen + arg[1].part

LimitEnforced ==
    (ret'.op = "activate_paid_license" /\ arg'[1].decodes)
    => LET key == arg'[1].payload.key
           recorded == get_activation_count(store, key, FALSE)
       IN  /\ recorded >= arg'[1].payload.max_activations => ~ret'.ok
           /\ ret'.ok => get_activation_count(store', key, FALSE) = recorded + 1

(* C30: activate_paid_license fails whenever the activation count recorded in
   the keyring for the key has reached the key's max_activations, and a
   successful activation raises that count by exactly 1. *)
C30_LimitEnforced == [][LimitEnforced]_vars

(* C31: a keyring that holds an identity record holds the private key entry
   of that record's user_id, also after keyring calls have failed. *)
C31_RecordHasPrivateKey ==
    IDENTITY \in DOMAIN store => PrivateEntry(store[IDENTITY].user_id) \in DOMAIN store

(* The identity caches of the managers on the keyring *)
Caches == {identity_cache} \cup {mgr[p].cache : p \in Managers}

(* C32: a manager's identity cache, when it is not empty, holds the identity
   record that is in the keyring. *)
C32_CacheCoherent ==
    \A cache \in Caches :
        cache # None => IDENTITY \in DOMAIN store /\ store[IDENTITY] = cache[1]

(* C33: when validate_current_license reports a valid licence, that licence
   was issued to the identity the keyring holds; the licence of a destroyed
   identity does not validate once a new identity has been made. *)
C33_ValidatesForItsIdentity ==
    (ret.op = "validate_current_license" /\ ret.ok /\ ret.val[1] /\ IDENTITY \in DOMAIN store)
        => ret.val[2][1].user_id = store[IDENTITY].user_id

(* C34: the in-memory log list holds at most the kept number of entries. *)
C34_LogsBounded == Len(logs) <= MaxLogs

(* C35: set_bandwidth_limit stores the limits it was given when the backend
   call succeeded and returns an error and leaves the stored limits alone when
   the backend could not be run or exited with failure; get_bandwidth_limit
   returns the stored limits, which nothing else changes while the application
   runs. *)
LimitsFollowBackend ==
    /\ (ret'.op = "set_bandwidth_limit" /\ arg'[2] # "success")
           => ~ret'.ok /\ bandwidth_limits' = bandwidth_limits
    /\ (ret'.op = "set_bandwidth_limit" /\ ~ret'.ok) => bandwidth_limits' = bandwidth_limits
    /\ (ret'.op = "set_bandwidth_limit" /\ ret'.ok)
           => arg'[2] = "success" /\ bandwidth_limits' = arg'[1]
    /\ ret'.op = "get_bandwidth_limit"
           => ret'.ok /\ ret'.val = bandwidth_limits /\ bandwidth_limits' = bandwidth_limits
    /\ bandwidth_limits' # bandwidth_limits
           => (ret'.op = "set_bandwidth_limit" /\ ret'.ok) \/ ret'.op = "none"

C35_LimitsFollowBackend == [][LimitsFollowBackend]_vars

(* set_bandwidth_limit has returned an error because the backend exited with
   failure, and the limits set by an earlier call are still the stored ones *)
C35_Witness ==
    /\ ret.op = "set_bandwidth_limit"
    /\ ~ret.ok
    /\ arg[2] = "exit_failure"
    /\ arg[1] # bandwidth_limits
    /\ bandwidth_limits = BandwidthLimits(512, 256, TRUE)

(* A key shorter than 16 characters or without a '-' *)
Malformed(key) == Len(key) < MIN_PRODUCT_KEY_LEN \/ ~str_contains(key, DASH)

StubConsistent ==
    /\ MOCK_STATE'.product_key # None <=> MOCK_STATE'.is_activated
    /\ is_genuine(MOCK_STATE').val[1] => is_activated(MOCK_STATE').val[1]
    /\ MOCK_STATE'.is_activated => get_trial_days_remaining(MOCK_STATE').val[1] = 0
    /\ (ret'.op \in {"activate", "activate_license"} /\ Malformed(arg'[1]))
           => ~ret'.ok /\ MOCK_STATE' = MOCK_STATE

(* C36: in the stub licence state product_key is set exactly when is_activated
   is true, is_genuine() implies is_activated(), get_trial_days_remaining() is
   0 when activated, and activate with a key shorter than 16 characters or
   without '-' returns an error and leaves the state as it was. *)
C36_StubConsistent == [][StubConsistent]_vars

====
